---- MODULE Spec2Model ----
(***************************************************************************)
(* Model of the generation pipeline of smart_applicant (src/logic.py):     *)
(* run_job_application_logic and the helpers it calls, as a state machine  *)
(* over the module globals (provider clients), the process environment,    *)
(* the output filesystem and the position of the running driver.           *)
(*                                                                         *)
(* Python str values are sequences of one-character strings; a message     *)
(* passed to status_callback is a sequence of text fragments.              *)
(***************************************************************************)
EXTENDS Integers, Sequences, FiniteSets, TLC

\* ---------------------------------------------------------------- bounds
\* calls of run_job_application_logic in one process
MaxRuns == 2

\* length of the strings given to the sanitisation functions in SanSpec
MaxLen == 3

\* template files that are not in order at the same time
MaxBadTemplates == 1

\* ------------------------------------------------------- optional values
None == [some |-> FALSE, v |-> <<>>]

Some(x) == [some |-> TRUE, v |-> x]

\* ------------------------------------------------------------ characters
AsciiLetters ==
    {"A","B","C","D","E","F","G","H","I","J","K","L","M","N","O","P","Q",
     "R","S","T","U","V","W","X","Y","Z","a","b","c","d","e","f","g","h",
     "i","j","k","l","m","n","o","p","q","r","s","t","u","v","w","x","y","z"}

Digits == {"0","1","2","3","4","5","6","7","8","9"}

\* letters outside ASCII that str.isalnum() accepts
UnicodeLetters == {"ü", "ö", "ß"}

\* the alphabet [A-Za-z0-9_ -] of the specification
SafeAlphabet == AsciiLetters \cup Digits \cup {"_", " ", "-"}

\* \w of a str pattern (re.UNICODE is the default for str patterns)
ReWord(c) == c \in AsciiLetters \cup Digits \cup {"_"} \cup UnicodeLetters

\* \s of a str pattern, also the characters str.strip() removes
ReSpace(c) == c \in {" ", "\t", "\n"}

\* re.sub(r'[^\w\s-]', '', s)
ReSubUnsafe(s) == SelectSeq(s, LAMBDA c : ReWord(c) \/ ReSpace(c) \/ c = "-")

RECURSIVE LStrip(_)
LStrip(s) == IF s # <<>> /\ ReSpace(Head(s)) THEN LStrip(Tail(s)) ELSE s

RECURSIVE RStrip(_)
RStrip(s) ==
    IF s # <<>> /\ ReSpace(s[Len(s)]) THEN RStrip(SubSeq(s, 1, Len(s) - 1)) ELSE s

\* str.strip()
Strip(s) == RStrip(LStrip(s))

\* str.replace(' ', '_')
ReplaceSpaces(s) == [i \in DOMAIN s |-> IF s[i] = " " THEN "_" ELSE s[i]]

\* safe_company / safe_role of create_job_directory
SafeDirPart(s) == Strip(ReSubUnsafe(s))

\* safe_role_fn of save_files
SafeRoleFn(s) == ReplaceSpaces(Strip(ReSubUnsafe(s)))

\* `not x or not x.strip()` for an optional str
IsBlank(x) == ~x.some \/ x.v = <<>> \/ Strip(x.v) = <<>>

\* the check without the .strip(): only "" counts as empty
JdIsEmptyNoStrip(jd) == jd = <<>>

\* `not jd_text or not jd_text.strip()` of the driver
JdIsEmpty(jd) == IsBlank(Some(jd))

\* the check as `x is None`: an empty or blank text passes
GenerationFailedNoneOnly(x) == ~x.some

\* `not tailored_cv or not tailored_cv.strip()`, and the same for anschreiben
GenerationFailed(x) == IsBlank(x)

\* `not x` for an optional str (None and "" are falsy)
Falsy(x) == ~x.some \/ x.v = <<>>

\* ------------------------------------------------------------ JSON values
\* a value read from the parsed classification object: a str or another
\* JSON type (null, number, nested object)
JStr(s) == [type |-> "str", s |-> s]

JNull == [type |-> "null", s |-> <<>>]

JNum == [type |-> "int", s |-> <<>>]

UnknownCompany ==
    <<"U","n","k","n","o","w","n"," ","C","o","m","p","a","n","y">>

UnknownRole == <<"U","n","k","n","o","w","n"," ","R","o","l","e">>

AcmeGmbH == <<"A","C","M","E"," ","G","m","b","H">>

DataEngineer == <<"D","a","t","a"," ","E","n","g","i","n","e","e","r">>

\* a company name with an umlaut, a slash and a dot; a role with a tab, a
\* trailing blank and punctuation
MuellerCo == <<"M","ü","/","C","o",".">>

DevTabOps == <<"D","e","v","\t","O","p","s","!"," ">>

\* str(x) inside an f-string
Render(j) == IF j.type = "str" THEN j.s ELSE <<"<", j.type, ">">>

\* the JSON objects a classifier response can carry, by the token that
\* stands for the text between the braces; keys lists the keys present
JsonBodies ==
    [ kv_acme    |-> [keys |-> {"company_name", "job_title"},
                      company_name |-> JStr(AcmeGmbH), job_title |-> JStr(DataEngineer)],
      kv_umlaut  |-> [keys |-> {"company_name", "job_title"},
                      company_name |-> JStr(MuellerCo), job_title |-> JStr(DevTabOps)],
      kv_null    |-> [keys |-> {"company_name", "job_title"},
                      company_name |-> JNull, job_title |-> JStr(DataEngineer)],
      kv_num     |-> [keys |-> {"company_name", "job_title"},
                      company_name |-> JStr(AcmeGmbH), job_title |-> JNum] ]

\* dict.get(key, default)
DictGet(obj, key, default) == IF key \in obj.keys THEN obj[key] ELSE JStr(default)

\* ------------------------------------------------------ progress events
Ev(msg, sev) == [message |-> msg, severity |-> sev]

Contains(msg, frag) == \E i \in DOMAIN msg : msg[i] = frag

\* str.capitalize() of the provider tag
Capitalize(p) ==
    IF p = "claude" THEN "Claude" ELSE IF p = "gemini" THEN "Gemini" ELSE "Openai"

\* --------------------------------------------------------- configuration
Providers == {"claude", "gemini"}

\* MODELS
MODELS ==
    [ claude |-> [fast |-> "claude-3-5-haiku-20241022",
                  powerful |-> "claude-3-5-haiku-20241022"],
      gemini |-> [fast |-> "gemini-1.5-flash-latest",
                  powerful |-> "gemini-1.5-pro-latest"] ]

\* the credential variable os.getenv reads for a provider
EnvVar == [claude |-> "ANTHROPIC_API_KEY", gemini |-> "GEMINI_API_KEY"]

\* os.getenv gives None for an unset variable and "" for an empty one
Unset == "<unset>"

CredValues == {Unset, "", "sk-1", "sk-2"}

\* `not KEY` for the value os.getenv returned
NoKey(k) == k = Unset \/ k = ""

\* claude_client = None
NoClient == "<None>"

USER_NAME == "ZohaibMalik"

\* -------------------------------------------------- external outcomes
\* what a provider request can do: raise, or return a text
LlmRaise == [tag |-> "raise", raise |-> TRUE, text |-> <<"timeout">>]

\* stands in an exception text for the api_key the client was built with
ApiKeyOfClient == "<api_key of the client>"

\* an exception of the SDK whose text quotes what the request was sent with
LlmRaiseQuoting ==
    [tag |-> "raise", raise |-> TRUE, text |-> <<"request was invalid: ", ApiKeyOfClient>>]

\* str(e) of the exception of outcome out, raised by a client holding key
StrOfException(out, key) ==
    [i \in DOMAIN out.text |-> IF out.text[i] = ApiKeyOfClient THEN key ELSE out.text[i]]

LlmText(tag, t) == [tag |-> tag, raise |-> FALSE, text |-> t]

\* the code-fence markers of a model answer (three backticks)
FenceJson == "<fence>json"

Fence == "<fence>"

BlankText == <<" ", " ", "\n", "\t", " ">>

ClassifyOutcomes ==
    { LlmRaise,
      LlmText("empty", <<>>),
      LlmText("blank", BlankText),
      LlmText("nojson", <<"Sorry,", " ", "no", " ", "data">>),
      LlmText("nojson", <<"}", "oops", "{">>),
      LlmText("badjson", <<"{", "oops", "}">>),
      LlmText("badjson", <<"{", "kv_acme", "}", "or", "{", "kv_umlaut", "}">>),
      LlmText("json_acme", <<"Here is the data:", " ", FenceJson, "{", "kv_acme", "}",
                        Fence, " ", "thanks!">>),
      LlmText("json_umlaut", <<"{", "\n", "kv_umlaut", "\n", "}">>),
      LlmText("json", <<"{", "}">>),
      LlmText("json", <<"{", "kv_null", "}">>),
      LlmText("json", <<"{", "kv_num", "}">>) }

GenOutcomes(texts) ==
    {LlmRaise, LlmRaiseQuoting, LlmText("empty", <<>>), LlmText("blank", BlankText)}
        \cup {LlmText("text", t) : t \in texts}

CvTexts == {<<"<html>", "cv", "</html>">>}

LetterTexts == {<<"Sehr geehrte Damen und Herren">>, <<"Guten Tag">>}

\* a template file: absent, present but unreadable, present and empty,
\* present with content
TemplateStates == {"missing", "unreadable", "empty", "ok"}

TemplateNames == <<"cv_template.html", "core_info.txt", "reference_cv.txt">>

\* the states the three template files can be found in
TemplateCases ==
    {st \in [DOMAIN TemplateNames -> TemplateStates] :
        Cardinality({i \in DOMAIN st : st[i] # "ok"}) <= MaxBadTemplates}

\* datetime.now().strftime('%Y-%m-%d'): the process lives within one day
Today == "2025-09-06"

JdTexts == {<<>>, BlankText, <<"J", "D">>}

ProviderTags == Providers \cup {"openai"}

\* ------------------------------------------------------- JSON extraction
Indices(t, tok) == {i \in DOMAIN t : t[i] = tok}

Min(S) == CHOOSE x \in S : \A y \in S : x <= y

Max(S) == CHOOSE x \in S : \A y \in S : x >= y

\* the pattern with a lazy quantifier, r'\{.*?\}': from the first "{" to the
\* first "}" behind it
ReSearchJsonLazy(t) ==
    LET opens == Indices(t, "{")
        closes == {i \in Indices(t, "}") : opens # {} /\ i > Min(opens)}
    IN  IF closes # {} THEN Some(SubSeq(t, Min(opens), Min(closes))) ELSE None

\* re.match in place of re.search: the object has to start the response
ReMatchJson(t) ==
    LET closes == Indices(t, "}")
    IN  IF t # <<>> /\ t[1] = "{" /\ closes # {} /\ Max(closes) > 1
        THEN Some(SubSeq(t, 1, Max(closes)))
        ELSE None

\* re.search(r'\{.*\}', response, re.DOTALL): from the first "{" to the last
\* "}" behind it; None when there is no such pair
ReSearchJson(t) ==
    LET opens == Indices(t, "{")
        closes == Indices(t, "}")
    IN  IF opens # {} /\ closes # {} /\ Max(closes) > Min(opens)
        THEN Some(SubSeq(t, Min(opens), Max(closes)))
        ELSE None

\* json.loads of a text that starts with "{" and ends with "}": an object,
\* or JSONDecodeError (None)
JsonLoads(m) ==
    LET inner == SelectSeq(SubSeq(m, 2, Len(m) - 1), LAMBDA c : ~ReSpace(c))
    IN  IF inner = <<>>
        THEN Some([keys |-> {}, company_name |-> JNull, job_title |-> JNull])
        ELSE IF Len(inner) = 1 /\ inner[1] \in DOMAIN JsonBodies
        THEN Some(JsonBodies[inner[1]])
        ELSE None

Sentinels(evs) ==
    [company |-> JStr(UnknownCompany), role |-> JStr(UnknownRole), events |-> evs]

\* extract_info_from_jd after the call_ai: response is the optional text
ParseClassification(response) ==
    IF IsBlank(response)
    THEN Sentinels(<<Ev(<<"AI returned an empty response for company/role extraction.">>,
                        "error")>>)
    ELSE LET json_match == ReSearchJson(response.v)
             info == IF json_match.some THEN JsonLoads(json_match.v) ELSE None
         IN  IF json_match.some /\ info.some
             THEN [company |-> DictGet(info.v, "company_name", UnknownCompany),
                   role |-> DictGet(info.v, "job_title", UnknownRole),
                   events |-> <<>>]
             ELSE Sentinels(<<Ev(<<"Failed to parse company/role from AI response. Error:",
                                   "<JSONDecodeError>">>, "error")>>)

\* ------------------------------------------------------------------ state
VARIABLES
    env,                \* what os.environ holds for the credential variable of
                        \* the running call's provider, until the os.getenv
                        \* of initialize_ai_provider has read it (Unset when
                        \* no read is ahead: nothing else looks at it)
    claude_client,      \* global claude_client: NoClient or the api_key it holds
    gemini_configured,  \* global gemini_configured
    genai_key,          \* the api_key genai.configure() last bound
    fs_dirs,            \* directories under OUTPUT_DIR
    fs_files,           \* files under OUTPUT_DIR: [dir, name, content]
    runs,               \* calls of run_job_application_logic so far
    pc,                 \* position of the driver
    provider, jd_text,  \* arguments of the running call
    company, role,      \* locals of the running call
    job_folder, templates, tailored_cv, anschreiben,
    events,             \* what status_callback received in this call
    calls,              \* provider requests issued in this call
    written,            \* artifacts written in this call, in order
    ext,                \* outcomes of the external calls of this call
    result,             \* how the call ended
    san_in, san_out,    \* input and results of the sanitisation functions
    cb_ret,             \* what status_callback returns to the running call
    pass, snap, first   \* one call made twice from one state: which of the
                        \* two is running, the state and arguments both
                        \* start from, what the first was given and did

procVars == <<env, claude_client, gemini_configured, genai_key, fs_dirs, fs_files, runs>>

runVars == <<pc, provider, jd_text, company, role, job_folder, templates, tailored_cv,
             anschreiben, events, calls, written, ext, result>>

sanVars == <<san_in, san_out>>

cbVars == <<cb_ret, pass, snap, first>>

vars == <<procVars, runVars, sanVars, cbVars>>

\* how a call ends
RPending == [kind |-> "pending", path |-> <<>>]

RNull == [kind |-> "null", path |-> <<>>]

RPath(d) == [kind |-> "path", path |-> d]

RRaised == [kind |-> "raised", path |-> <<>>]

NoExt ==
    [classify |-> "-", mkdir |-> "-", templates |-> <<"-", "-", "-">>,
     tailor |-> "-", compose |-> "-", write |-> "-", found |-> 0]

\* status_callback of app.py and print_status of job_applicator.py end
\* without a return statement
CallbackOfApp == "None"

\* what a callback a caller passes in can return
CallbackReturns == {"None", "False"}

\* the front-end's callback, no call made twice
NoPair ==
    /\ cb_ret = CallbackOfApp
    /\ pass = 0
    /\ snap = <<>>
    /\ first = <<>>

\* the process after the import of logic.py, before any call
Fresh ==
    /\ claude_client = NoClient
    /\ gemini_configured = FALSE
    /\ genai_key = NoClient
    /\ fs_dirs = {}
    /\ fs_files = {}
    /\ runs = 0
    /\ pc = "idle"
    /\ provider = "claude"
    /\ jd_text = <<>>
    /\ company = JNull
    /\ role = JNull
    /\ job_folder = None
    /\ templates = <<None, None, None>>
    /\ tailored_cv = None
    /\ anschreiben = None
    /\ events = <<>>
    /\ calls = <<>>
    /\ written = <<>>
    /\ ext = NoExt
    /\ result = RPending

Init ==
    /\ env = Unset
    /\ Fresh
    /\ san_in = <<>>
    /\ san_out = None
    /\ NoPair

\* a front-end calls run_job_application_logic(p, jd, status_callback) in an
\* environment where the credential variable of p is k: whatever set it, the
\* .env file, the shell or the front-end, has done so by now. "sk-1" is the
\* first credential a process sees for a provider, "sk-2" one that was
\* changed after the provider's client was built
Enter(p, jd, k) ==
    /\ pc = "idle"
    /\ runs < MaxRuns
    /\ p \notin Providers => k = Unset
    /\ k = "sk-2" => (IF p = "claude" THEN claude_client ELSE genai_key) # NoClient
    /\ runs' = runs + 1
    /\ pc' = "init"
    /\ provider' = p
    /\ jd_text' = jd
    /\ env' = k
    /\ UNCHANGED <<claude_client, gemini_configured, genai_key, fs_dirs,
                   fs_files, company, role, job_folder, templates, tailored_cv,
                   anschreiben, events, calls, written, ext, result, sanVars>>

\* the call of a front-end, with its callback
Run(p, jd, k) == Enter(p, jd, k) /\ UNCHANGED cbVars

\* the caller has taken the result; the frame of the call and the log of its
\* callback are gone
Return ==
    /\ pc = "done"
    /\ pc' = "idle"
    /\ provider' = "claude"
    /\ jd_text' = <<>>
    /\ company' = JNull
    /\ role' = JNull
    /\ job_folder' = None
    /\ templates' = <<None, None, None>>
    /\ tailored_cv' = None
    /\ anschreiben' = None
    /\ events' = <<>>
    /\ calls' = <<>>
    /\ written' = <<>>
    /\ ext' = NoExt
    /\ result' = RPending
    /\ env' = Unset
    /\ UNCHANGED <<claude_client, gemini_configured, genai_key, fs_dirs, fs_files, runs,
                   sanVars, cbVars>>

\* the call returns v (or raises) at this point
Finish(v) ==
    /\ pc' = "done"
    /\ result' = v

\* the driver with Step 4 written before Step 3
NextStepTailorFirst(step) ==
    CASE step = "init" -> "start"
      [] step = "start" -> "classify"
      [] step = "classify" -> "mkdir"
      [] step = "mkdir" -> "tailor"
      [] step = "tailor" -> "templates"
      [] step = "templates" -> "compose"
      [] step = "compose" -> "save"

\* the statement run_job_application_logic goes on with when a step has
\* returned without ending the call
NextStep(step) ==
    CASE step = "init" -> "start"
      [] step = "start" -> "classify"
      [] step = "classify" -> "mkdir"
      [] step = "mkdir" -> "templates"
      [] step = "templates" -> "tailor"
      [] step = "tailor" -> "compose"
      [] step = "compose" -> "save"

\* a driver that returns when status_callback has returned False
ContinueUnlessFalse(ret, step) == IF ret = "False" THEN "done" ELSE step

\* where the driver is after a step that goes on to statement step and whose
\* calls of status_callback returned ret: every call of status_callback in
\* logic.py is an expression statement, the value is dropped
Continue(ret, step) == step

\* models["powerful"] at every call site
ModelForAllPowerful(p, stage) == MODELS[p].powerful

\* the model name each call site of the driver passes on
ModelFor(p, stage) ==
    IF stage = "classify" THEN MODELS[p].fast ELSE MODELS[p].powerful

\* the check left out: the client is built in every call
NotClaudeClientAlways == TRUE

\* `not claude_client`
NotClaudeClient == claude_client = NoClient

\* a check that never finds genai unconfigured: genai.configure is skipped
NotGeminiConfiguredNever == FALSE

\* `not gemini_configured`
NotGeminiConfigured == ~gemini_configured

\* initialize_ai_provider
InitializeAiProvider ==
    /\ pc = "init"
    /\ LET ANTHROPIC_API_KEY == IF provider = "claude" THEN env ELSE Unset
           GEMINI_API_KEY == IF provider = "gemini" THEN env ELSE Unset
       IN  IF provider = "claude" /\ NotClaudeClient
           THEN IF NoKey(ANTHROPIC_API_KEY)
                THEN /\ events' = Append(events,
                            Ev(<<"ANTHROPIC_API_KEY", " is not set.">>, "error"))
                     /\ Finish(RNull)
                     /\ UNCHANGED <<claude_client, gemini_configured, genai_key>>
                ELSE /\ claude_client' = ANTHROPIC_API_KEY
                     /\ events' = Append(events, Ev(<<"Claude client initialized.">>, "info"))
                     /\ pc' = Continue(cb_ret, NextStep("init"))
                     /\ UNCHANGED <<gemini_configured, genai_key, result>>
           ELSE IF provider = "gemini" /\ NotGeminiConfigured
           THEN IF NoKey(GEMINI_API_KEY)
                THEN /\ events' = Append(events,
                            Ev(<<"GEMINI_API_KEY", " is not set.">>, "error"))
                     /\ Finish(RNull)
                     /\ UNCHANGED <<claude_client, gemini_configured, genai_key>>
                ELSE /\ genai_key' = GEMINI_API_KEY
                     /\ gemini_configured' = TRUE
                     /\ events' = Append(events, Ev(<<"Gemini client initialized.">>, "info"))
                     /\ pc' = Continue(cb_ret, NextStep("init"))
                     /\ UNCHANGED <<claude_client, result>>
           ELSE /\ pc' = Continue(cb_ret, NextStep("init"))
                /\ UNCHANGED <<claude_client, gemini_configured, genai_key, events, result>>
    /\ env' = Unset
    /\ UNCHANGED <<fs_dirs, fs_files, runs, provider, jd_text, company, role,
                   job_folder, templates, tailored_cv, anschreiben, calls, written, ext,
                   sanVars, cbVars>>

\* lines 244-249 of run_job_application_logic: the model lookup, the start
\* event and the check of the job description
StartProcess ==
    /\ pc = "start"
    /\ IF provider \notin DOMAIN MODELS
       THEN \* MODELS[provider] raises KeyError, which nothing catches
            /\ Finish(RRaised)
            /\ UNCHANGED events
       ELSE LET started == Append(events,
                    Ev(<<"Starting Process with '", Capitalize(provider), "'...">>, "info"))
            IN  IF JdIsEmpty(jd_text)
                THEN /\ events' = Append(started,
                            Ev(<<"Job Description text is empty. Process stopped.">>, "error"))
                     /\ Finish(RNull)
                ELSE /\ events' = started
                     /\ pc' = Continue(cb_ret, NextStep("start"))
                     /\ UNCHANGED result
    /\ UNCHANGED <<procVars, provider, jd_text, company, role, job_folder, templates,
                   tailored_cv, anschreiben, calls, written, ext, sanVars, cbVars>>

\* the event of the except clause of call_ai: text is str(e)
ApiFailed(p, text) == Ev(<<"API call to ", p, " failed: ">> \o text, "error")

\* a call_ai that sends the request again after an exception
IssuedRequestsRetry(req, out) == IF out.raise THEN <<req, req>> ELSE <<req>>

\* the requests call_ai sends for one prompt: the body of its try holds one
\* create / generate_content call and no loop, whatever the outcome
IssuedRequests(req, out) == <<req>>

\* call_ai: the events it reports, the request it issues (none when the
\* client object is missing) and the text it returns (None after an exception)
CallAi(p, model_name, stage, out) ==
    LET working == Ev(<<"Calling ", p, " model (", model_name,
                        ")... This may take a moment.">>, "working")
        request(key) == [stage |-> stage, provider |-> p, model |-> model_name,
                         api_key |-> key]
    IN  IF p = "claude" /\ claude_client = NoClient
        THEN \* None.messages raises AttributeError inside the try
             [events |-> <<working, ApiFailed(p, <<"<AttributeError>">>)>>,
              requests |-> <<>>, response |-> None]
        ELSE LET key == IF p = "claude" THEN claude_client ELSE genai_key
             IN  IF out.raise
                 THEN [events |-> <<working, ApiFailed(p, StrOfException(out, key))>>,
                       requests |-> IssuedRequests(request(key), out), response |-> None]
                 ELSE [events |-> <<working>>,
                       requests |-> IssuedRequests(request(key), out),
                       response |-> Some(out.text)]

\* Step 1: extract_info_from_jd and the "Identified Role" event
ExtractInfoFromJd ==
    /\ pc = "classify"
    /\ \E out \in ClassifyOutcomes :
         LET c == CallAi(provider, ModelFor(provider, "classify"), "classify", out)
             parsed == ParseClassification(c.response)
         IN  /\ company' = parsed.company
             /\ role' = parsed.role
             /\ calls' = calls \o c.requests
             /\ events' = events \o c.events \o parsed.events \o
                    <<Ev(<<"Identified Role: ">> \o Render(parsed.role) \o <<" at ">>
                         \o Render(parsed.company), "success")>>
             /\ ext' = [ext EXCEPT !.classify = out.tag]
    /\ pc' = Continue(cb_ret, NextStep("classify"))
    /\ UNCHANGED <<procVars, provider, jd_text, job_folder, templates, tailored_cv,
                   anschreiben, written, result, sanVars, cbVars>>

\* dir_name.name of create_job_directory
DirName(date, comp, rol) ==
    <<date, " - ">> \o SafeDirPart(comp) \o <<" - ">> \o SafeDirPart(rol)

\* the files of directory d
FileRecords(d) == {x \in fs_files : x.dir = d}

\* dir_name.mkdir(parents=True) without exist_ok: FileExistsError when the
\* directory is there
MkdirNoExistOk(dirs, d, io_ok) ==
    IF ~io_ok THEN "oserror" ELSE IF d \in dirs THEN "fileexists" ELSE "created"

\* dir_name.mkdir(parents=True, exist_ok=True): how it ends when the file
\* system lets it (io_ok) or not
Mkdir(dirs, d, io_ok) ==
    IF ~io_ok THEN "oserror" ELSE IF d \in dirs THEN "existed" ELSE "created"

MkdirOk == {"created", "existed"}

\* `except OSError` in place of `except Exception`: the TypeError of re.sub
\* leaves create_job_directory and the driver
ExceptOsErrorOnly(exc) == IF exc = "TypeError" THEN RRaised ELSE RNull

\* how the call ends when exc is raised inside create_job_directory:
\* `except Exception` reports it and returns None, `if not job_folder` ends
\* the call with None
ExceptException(exc) == RNull

\* a mkdir that empties the directory it finds
FilesAfterMkdirCleared(files, d) == {x \in files : x.dir # d}

\* the files after dir_name.mkdir(parents=True, exist_ok=True) succeeded on
\* d: what is in an existing directory stays
FilesAfterMkdir(files, d) == files

\* Step 2: create_job_directory; mkdir_ok is whether the file system lets
\* Path.mkdir succeed
CreateJobDirectory ==
    /\ pc = "mkdir"
    /\ \E mkdir_ok \in BOOLEAN :
         IF company.type # "str" \/ role.type # "str"
         THEN \* re.sub raises TypeError, caught by the except of the function
              /\ events' = Append(events,
                     Ev(<<"Failed to create directory. Error: ", "<TypeError>">>, "error"))
              /\ Finish(ExceptException("TypeError"))
              /\ ext' = [ext EXCEPT !.mkdir = "typeerror"]
              /\ UNCHANGED <<fs_dirs, fs_files, job_folder>>
         ELSE LET dir_name == DirName(Today, company.s, role.s)
                  made == Mkdir(fs_dirs, dir_name, mkdir_ok)
              IN  IF made \in MkdirOk
                  THEN /\ fs_dirs' = fs_dirs \cup {dir_name}
                       /\ fs_files' = FilesAfterMkdir(fs_files, dir_name)
                       /\ events' = Append(events,
                              Ev(<<"Created application folder: ">> \o dir_name, "success"))
                       /\ job_folder' = Some(dir_name)
                       /\ pc' = Continue(cb_ret, NextStep("mkdir"))
                       /\ ext' = [ext EXCEPT !.mkdir = made,
                                          !.found = Cardinality(FileRecords(dir_name))]
                       /\ UNCHANGED result
                  ELSE /\ events' = Append(events,
                              Ev(<<"Failed to create directory. Error: ", "<OSError>">>,
                                 "error"))
                       /\ Finish(ExceptException("OSError"))
                       /\ ext' = [ext EXCEPT !.mkdir = made]
                       /\ UNCHANGED <<fs_dirs, fs_files, job_folder>>
    /\ UNCHANGED <<env, claude_client, gemini_configured, genai_key, runs,
                   provider, jd_text, company, role, templates, tailored_cv, anschreiben,
                   calls, written, sanVars, cbVars>>

\* read_file_content of template i whose file is in state st
ReadFileContent(i, st) ==
    IF st = "missing"
    THEN [content |-> None,
          events |-> <<Ev(<<"Template file not found: ", TemplateNames[i]>>, "error")>>]
    ELSE IF st = "unreadable"
    THEN [content |-> None,
          events |-> <<Ev(<<"Error reading file ", TemplateNames[i], ": ", "<OSError>">>,
                          "error")>>]
    ELSE IF st = "empty"
    THEN [content |-> Some(<<>>), events |-> <<>>]
    ELSE [content |-> Some(<<TemplateNames[i]>>), events |-> <<>>]

\* the check as `None not in [...]`: an empty template passes
AllLoadedNotNone(t) == \A i \in DOMAIN t : t[i].some

\* all([cv_template_html, core_info, reference_cv])
AllLoaded(t) == \A i \in DOMAIN t : ~Falsy(t[i])

\* Step 3: the three read_file_content calls and the check of their results
LoadTemplates ==
    /\ pc = "templates"
    /\ \E st \in TemplateCases :
         LET read == [i \in DOMAIN TemplateNames |-> ReadFileContent(i, st[i])]
             loaded == [i \in DOMAIN TemplateNames |-> read[i].content]
         IN  /\ templates' = loaded
             /\ events' = events \o read[1].events \o read[2].events \o read[3].events
             /\ ext' = [ext EXCEPT !.templates = st]
             /\ IF AllLoaded(loaded)
                THEN pc' = Continue(cb_ret, NextStep("templates")) /\ UNCHANGED result
                ELSE Finish(RNull)
    /\ UNCHANGED <<procVars, provider, jd_text, company, role, job_folder, tailored_cv,
                   anschreiben, calls, written, sanVars, cbVars>>

\* Step 4: tailor_cv and the check of its result
TailorCv ==
    /\ pc = "tailor"
    /\ \E out \in GenOutcomes(CvTexts) :
         LET c == CallAi(provider, ModelFor(provider, "tailor"), "tailor", out)
         IN  /\ tailored_cv' = c.response
             /\ calls' = calls \o c.requests
             /\ ext' = [ext EXCEPT !.tailor = out.tag]
             /\ IF GenerationFailed(c.response)
                THEN /\ events' = events \o c.events \o
                            <<Ev(<<"AI failed to generate CV content. Process stopped.">>,
                                 "error")>>
                     /\ Finish(RNull)
                ELSE /\ events' = events \o c.events \o
                            <<Ev(<<"Successfully tailored CV with AI.">>, "success")>>
                     /\ pc' = Continue(cb_ret, NextStep("tailor"))
                     /\ UNCHANGED result
    /\ UNCHANGED <<procVars, provider, jd_text, company, role, job_folder, templates,
                   anschreiben, written, sanVars, cbVars>>

\* Step 5: generate_anschreiben and the check of its result
GenerateAnschreiben ==
    /\ pc = "compose"
    /\ \E out \in GenOutcomes(LetterTexts) :
         LET c == CallAi(provider, ModelFor(provider, "compose"), "compose", out)
         IN  /\ anschreiben' = c.response
             /\ calls' = calls \o c.requests
             /\ ext' = [ext EXCEPT !.compose = out.tag]
             /\ IF GenerationFailed(c.response)
                THEN /\ events' = events \o c.events \o
                            <<Ev(<<"AI failed to generate Anschreiben content. Process stopped.">>,
                                 "error")>>
                     /\ Finish(RNull)
                ELSE /\ events' = events \o c.events \o
                            <<Ev(<<"Successfully generated Anschreiben with AI.">>, "success")>>
                     /\ pc' = Continue(cb_ret, NextStep("compose"))
                     /\ UNCHANGED result
    /\ UNCHANGED <<procVars, provider, jd_text, company, role, job_folder, templates,
                   tailored_cv, written, sanVars, cbVars>>

\* the three artifacts of save_files, in the order the function writes them
Artifacts(rol, cv, letter) ==
    LET safe_role_fn == SafeRoleFn(rol)
    IN  << [kind |-> "html", label |-> "tailored HTML CV",
            name |-> <<"CV_", USER_NAME, "_">> \o safe_role_fn \o <<".html">>,
            content |-> cv],
           [kind |-> "pdf", label |-> "tailored PDF CV",
            name |-> <<"CV_", USER_NAME, "_">> \o safe_role_fn \o <<".pdf">>,
            content |-> <<"%PDF">> \o cv],
           [kind |-> "txt", label |-> "Anschreiben",
            name |-> <<"Anschreiben.txt">>,
            content |-> letter] >>

\* which write of save_files raises, if any
WriteFailures == <<"html", "pdf", "txt", "none">>

\* the files after write_text / write_pdf replaced or created file f in dir d
WriteFile(files, d, f) ==
    {x \in files : ~(x.dir = d /\ x.name = f.name)}
        \cup {[dir |-> d, name |-> f.name, content |-> f.content]}

RECURSIVE WriteAll(_, _, _, _)
WriteAll(files, d, arts, n) ==
    IF n = 0 THEN files ELSE WriteFile(WriteAll(files, d, arts, n - 1), d, arts[n])

\* what run_job_application_logic returns after save_files
ReturnAfterSave(folder) == RPath(folder)

\* a save_files that reports an artifact before it writes it: the event of
\* the write that raises is there as well
SavedEventsBeforeWrite(arts, done) ==
    [i \in 1..(IF done < Len(arts) THEN done + 1 ELSE done) |->
        Ev(<<"Saved ", arts[i].label, " to ">> \o arts[i].name, "success")]

\* the success events of save_files when its first done writes completed:
\* each status_callback follows its write
SavedEvents(arts, done) ==
    [i \in 1..done |-> Ev(<<"Saved ", arts[i].label, " to ">> \o arts[i].name, "success")]

\* a save_files that goes on after a write that raised
WritesDoneIgnoringFailure(w) == Len(WriteFailures) - 1

\* the writes of save_files that complete when write w is the one that
\* raises: those before it, the except clause ends the function
WritesDone(w) == w - 1

\* Step 6: save_files, and the return of the output folder
SaveFiles ==
    /\ pc = "save"
    /\ \E w \in DOMAIN WriteFailures :
         LET arts == Artifacts(role.s, tailored_cv.v, anschreiben.v)
             done == WritesDone(w)
             saved == SavedEvents(arts, done)
         IN  /\ fs_files' = WriteAll(fs_files, job_folder.v, arts, done)
             /\ written' = [i \in 1..done |-> arts[i].kind]
             /\ events' = IF WriteFailures[w] # "none"
                          THEN events \o saved \o
                               <<Ev(<<"Error saving files: ", "<OSError>">>, "error")>>
                          ELSE events \o saved
             /\ ext' = [ext EXCEPT !.write = WriteFailures[w]]
             /\ Finish(ReturnAfterSave(job_folder.v))
    /\ UNCHANGED <<env, claude_client, gemini_configured, genai_key, fs_dirs, runs,
                   provider, jd_text, company, role, job_folder, templates, tailored_cv,
                   anschreiben, calls, sanVars, cbVars>>

Next ==
    \/ \E p \in ProviderTags, jd \in JdTexts, k \in CredValues : Run(p, jd, k)
    \/ Return
    \/ InitializeAiProvider
    \/ StartProcess
    \/ ExtractInfoFromJd
    \/ CreateJobDirectory
    \/ LoadTemplates
    \/ TailorCv
    \/ GenerateAnschreiben
    \/ SaveFiles

Spec == Init /\ [][Next]_vars

\* ------------------------------------------------- sanitisation on its own
\* the characters the sanitised strings are drawn from: ASCII letters and a
\* digit, the three separators, an umlaut, tab and newline, punctuation
SanChars == {"A", "z", "7", "_", " ", "-", "ü", "\t", "\n", "/", "."}

BoundedSeqs(S, n) == UNION {[1..k -> S] : k \in 0..n}

SanInit ==
    /\ env = Unset
    /\ Fresh
    /\ san_in \in BoundedSeqs(SanChars, MaxLen)
    /\ san_out = None
    /\ NoPair

\* the two derivations applied to san_in: the directory component of
\* create_job_directory and the filename slug of save_files
Sanitise ==
    /\ ~san_out.some
    /\ san_out' = Some([dir |-> SafeDirPart(san_in), fn |-> SafeRoleFn(san_in)])
    /\ UNCHANGED <<procVars, runVars, san_in, cbVars>>

SanNext == Sanitise

SanSpec == SanInit /\ [][SanNext]_vars

\* ---------------------------------------------- one call made twice
\* the values the locals of a call that is not running hold
NoCall ==
    /\ pc = "idle"
    /\ provider = "claude"
    /\ jd_text = <<>>
    /\ company = JNull
    /\ role = JNull
    /\ job_folder = None
    /\ templates = <<None, None, None>>
    /\ tailored_cv = None
    /\ anschreiben = None
    /\ events = <<>>
    /\ calls = <<>>
    /\ written = <<>>
    /\ ext = NoExt
    /\ result = RPending

WarmDir == DirName(Today, AcmeGmbH, DataEngineer)

\* the process after one call for claude that wrote its three files
Warm ==
    /\ claude_client = "sk-1"
    /\ gemini_configured = FALSE
    /\ genai_key = NoClient
    /\ fs_dirs = {WarmDir}
    /\ fs_files = WriteAll({}, WarmDir,
                           Artifacts(DataEngineer, <<"<html>", "cv", "</html>">>,
                                     <<"Guten Tag">>), 3)
    /\ runs = 1
    /\ NoCall

CbInit ==
    /\ env = Unset
    /\ Fresh \/ Warm
    /\ san_in = <<>>
    /\ san_out = None
    /\ NoPair

\* the events of the except clause of call_ai: they carry str(e) of what
\* the SDK raised
ApiErrors(evs) ==
    SelectSeq(evs, LAMBDA e : e.message # <<>> /\ e.message[1] = "API call to ")

\* what the world outside gave the running call: the outcomes of its
\* external calls, the answers of the model, the templates, the exception
\* texts
Given ==
    [ext |-> ext, company |-> company, role |-> role, templates |-> templates,
     tailored_cv |-> tailored_cv, anschreiben |-> anschreiben,
     raised |-> ApiErrors(events)]

\* what the running call did: its result, its events, its requests, its
\* writes, the file system and the clients it leaves
Did ==
    [result |-> result, events |-> events, calls |-> calls, written |-> written,
     job_folder |-> job_folder, fs_dirs |-> fs_dirs, fs_files |-> fs_files,
     claude_client |-> claude_client, gemini_configured |-> gemini_configured,
     genai_key |-> genai_key]

\* the first of the two calls, with a callback that returns ret
FirstPass(p, jd, k, ret) ==
    /\ pass = 0
    /\ Enter(p, jd, k)
    /\ cb_ret' = ret
    /\ pass' = 1
    /\ snap' = [provider |-> p, jd_text |-> jd, env |-> k,
                claude_client |-> claude_client, gemini_configured |-> gemini_configured,
                genai_key |-> genai_key, fs_dirs |-> fs_dirs, fs_files |-> fs_files,
                runs |-> runs]
    /\ UNCHANGED first

\* the first call has returned: the same call is made from the state and
\* with the arguments the first started from, with a callback that returns
\* another value
SecondPass(ret) ==
    /\ pass = 1
    /\ pc = "done"
    /\ ret # cb_ret
    /\ first' = [ret |-> cb_ret, given |-> Given, did |-> Did]
    /\ cb_ret' = ret
    /\ pass' = 2
    /\ claude_client' = snap.claude_client
    /\ gemini_configured' = snap.gemini_configured
    /\ genai_key' = snap.genai_key
    /\ fs_dirs' = snap.fs_dirs
    /\ fs_files' = snap.fs_files
    /\ runs' = snap.runs + 1
    /\ env' = snap.env
    /\ pc' = "init"
    /\ provider' = snap.provider
    /\ jd_text' = snap.jd_text
    /\ company' = JNull
    /\ role' = JNull
    /\ job_folder' = None
    /\ templates' = <<None, None, None>>
    /\ tailored_cv' = None
    /\ anschreiben' = None
    /\ events' = <<>>
    /\ calls' = <<>>
    /\ written' = <<>>
    /\ ext' = NoExt
    /\ result' = RPending
    /\ UNCHANGED <<snap, sanVars>>

\* the running call has been given nothing the first call was not given
FollowsFirst ==
    LET g == first.given
    IN  /\ \A f \in {"classify", "mkdir", "tailor", "compose", "write"} :
               ext[f] \in {"-", g.ext[f]}
        /\ \A i \in DOMAIN ext.templates : ext.templates[i] \in {"-", g.ext.templates[i]}
        /\ company \in {JNull, g.company}
        /\ role \in {JNull, g.role}
        /\ \A i \in DOMAIN templates : templates[i] \in {None, g.templates[i]}
        /\ tailored_cv \in {None, g.tailored_cv}
        /\ anschreiben \in {None, g.anschreiben}
        /\ Len(ApiErrors(events)) <= Len(g.raised)
        /\ ApiErrors(events) = SubSeq(g.raised, 1, Len(ApiErrors(events)))

\* a step of the running call; the second call meets the external outcomes
\* the first met
Step ==
    /\ pass \in {1, 2}
    /\ \/ InitializeAiProvider
       \/ StartProcess
       \/ ExtractInfoFromJd
       \/ CreateJobDirectory
       \/ LoadTemplates
       \/ TailorCv
       \/ GenerateAnschreiben
       \/ SaveFiles
    /\ pass = 2 => FollowsFirst'

CbNext ==
    \/ \E p \in ProviderTags, jd \in JdTexts, k \in CredValues, ret \in CallbackReturns :
           FirstPass(p, jd, k, ret)
    \/ \E ret \in CallbackReturns : SecondPass(ret)
    \/ Step

CbSpec == CbInit /\ [][CbNext]_vars

\* ================================================================ claims
ErrorCount(evs) == Cardinality({i \in DOMAIN evs : evs[i].severity = "error"})

\* the events whose message starts with the fragment head
CountHead(evs, head) ==
    Cardinality({i \in DOMAIN evs : evs[i].message # <<>> /\ evs[i].message[1] = head})

IsSuffix(suf, t) ==
    Len(suf) <= Len(t) /\ SubSeq(t, Len(t) - Len(suf) + 1, Len(t)) = suf

AllThree == <<"html", "pdf", "txt">>

Requested(stage) == \E i \in DOMAIN calls : calls[i].stage = stage

BadTemplate == \E i \in DOMAIN ext.templates : ext.templates[i] \in {"missing", "unreadable", "empty"}

LaterStagesSucceed ==
    /\ ext.mkdir \in MkdirOk
    /\ \A i \in DOMAIN ext.templates : ext.templates[i] = "ok"
    /\ ext.tailor = "text"
    /\ ext.compose = "text"
    /\ ext.write = "none"

\* C1: the call returns the output directory only when all three artifacts
\* were written; when the directory cannot be created or a write fails, it
\* returns None.
C1_PathOnlyWhenDone ==
    pc = "done" =>
        /\ result.kind = "path" => written = AllThree
        /\ (ext.mkdir = "oserror" \/ ext.write \in {"html", "pdf", "txt"}) => result = RNull

\* C2: a call that ends in a fatal condition has reported exactly one error
\* event (stated for calls whose classification reported no soft error).
C2_OneErrorPerAbort ==
    (pc = "done" /\ result = RNull /\ ext.classify \in {"-", "json", "json_acme", "json_umlaut"}) =>
        ErrorCount(events) = 1

\* C3: in every call, also a later one of the process, with provider p whose
\* credential variable is unset or empty: the call returns None, reports a
\* single error event naming the variable, and issues no provider request.
C3_MissingCredentialAborts ==
    [][ (pc = "init" /\ provider \in Providers /\ env \in {Unset, ""}) =>
            /\ pc' = "done"
            /\ result' = RNull
            /\ calls' = <<>>
            /\ ErrorCount(events') = 1
            /\ \E i \in DOMAIN events' :
                  /\ events'[i].severity = "error"
                  /\ Contains(events'[i].message, EnvVar[provider])
      ]_vars

\* C4: a call with a provider tag outside {claude, gemini} reports one error
\* event and returns None; it reaches no stage and fails in no other way.
C4_InvalidProviderIsConfigError ==
    (pc \notin {"idle", "init", "start"} /\ provider \notin Providers) =>
        /\ pc = "done"
        /\ result = RNull
        /\ ErrorCount(events) = 1
        /\ calls = <<>>

\* C5: when a provider request raises, in Classify, Tailor or Compose, an
\* error event carries the exception text, the call returns None and no later
\* stage is executed.
C5_ProviderErrorIsFatal ==
    /\ ext.classify = "raise" => (ext.mkdir = "-" /\ ext.tailor = "-")
    /\ ext.tailor = "raise" => ext.compose = "-"
    /\ (\E st \in {"classify", "tailor", "compose"} : ext[st] = "raise") =>
          /\ written = <<>>
          /\ pc = "done" =>
                /\ result = RNull
                /\ \E i \in DOMAIN events :
                      /\ events[i].severity = "error"
                      /\ Contains(events[i].message, LlmRaise.text[1])

\* the files the filesystem holds in directory d, by name
FilesIn(d) == {f.name : f \in {x \in fs_files : x.dir = d}}

SentinelSuffix == UnknownCompany \o <<" - ">> \o UnknownRole

\* C6: when the classifier returns a text no JSON object can be parsed from,
\* the classification is the sentinel pair and exactly one error event, the
\* one about parsing, is reported for it; the call goes on to the directory
\* stage, and when every later stage succeeds it returns a directory whose
\* name ends in "Unknown Company - Unknown Role" holding the three artifacts.
C6_UnparseableClassificationIsSoft ==
    ext.classify \in {"nojson", "badjson"} =>
        /\ company = JStr(UnknownCompany)
        /\ role = JStr(UnknownRole)
        /\ CountHead(events, "Failed to parse company/role from AI response. Error:") = 1
        /\ ext.mkdir = "-" => (pc = "mkdir" /\ ErrorCount(events) = 1)
        /\ (pc = "done" /\ LaterStagesSucceed) =>
              /\ result.kind = "path"
              /\ ErrorCount(events) = 1
              /\ written = AllThree
              /\ IsSuffix(SentinelSuffix, result.path)
              /\ result.path \in fs_dirs
              /\ Cardinality(FilesIn(result.path)) = 3

C6_Witness ==
    /\ pc = "done"
    /\ ext.classify = "badjson"
    /\ LaterStagesSucceed
    /\ result.kind = "path"
    /\ written = AllThree

\* C7: when Tailor returns an empty or blank text the call returns None with
\* one error event about the CV generation, Compose is never requested and
\* nothing is written; when Compose returns an empty or blank text the call
\* returns None and neither the PDF nor the letter is written.
C7_FailStopOnEmptyGeneration ==
    /\ ext.tailor \in {"empty", "blank"} =>
          /\ pc = "done"
          /\ result = RNull
          /\ CountHead(events, "AI failed to generate CV content. Process stopped.") = 1
          /\ ext.compose = "-"
          /\ ~Requested("compose")
          /\ written = <<>>
    /\ ext.compose \in {"empty", "blank"} =>
          /\ pc = "done"
          /\ result = RNull
          /\ \A i \in DOMAIN written : written[i] \notin {"pdf", "txt"}

C7_Witness ==
    /\ pc = "done"
    /\ ext.tailor = "blank"
    /\ result = RNull
    /\ Requested("tailor")

\* C8: when one of the three templates is missing, unreadable or empty, the
\* call returns None at the template stage: no Tailor or Compose request is
\* issued and no artifact is written.
C8_TemplateCompleteness ==
    BadTemplate =>
        /\ pc = "done"
        /\ result = RNull
        /\ ext.tailor = "-" /\ ext.compose = "-"
        /\ ~Requested("tailor") /\ ~Requested("compose")
        /\ written = <<>>
        /\ ext.write = "-"

C8_Witness ==
    /\ pc = "done"
    /\ ext.templates[2] = "empty"
    /\ ext.templates[1] = "ok"
    /\ ext.templates[3] = "ok"
    /\ result = RNull

\* the job description consists of whitespace only (or of nothing)
WhitespaceOnly(t) == \A i \in DOMAIN t : t[i] \in {" ", "\t", "\n"}

\* C9: a call with an empty or whitespace-only job description whose
\* credential is present returns None with an error event saying that the
\* job description is empty; no classifier request is issued, no directory
\* is created and no file is written.
C9_EmptyJdAborts ==
    [][ /\ (pc = "init" /\ provider \in Providers /\ env \notin {Unset, ""}) =>
              \* the credential is present: the call gets to the check
              pc' = "start"
        /\ (pc = "start" /\ provider \in Providers /\ WhitespaceOnly(jd_text)) =>
              /\ pc' = "done"
              /\ result' = RNull
              /\ CountHead(events', "Job Description text is empty. Process stopped.") = 1
              /\ events'[Len(events')].severity = "error"
              /\ calls' = <<>>
              /\ ext' = NoExt
              /\ job_folder' = None
              /\ written' = <<>>
              /\ fs_dirs' = fs_dirs /\ fs_files' = fs_files
      ]_vars

\* a call with a job description of blanks, a newline and a tab has ended
\* with the error event of the check
C9_Witness ==
    /\ pc = "done"
    /\ provider \in Providers
    /\ jd_text = BlankText
    /\ result = RNull
    /\ CountHead(events, "Job Description text is empty. Process stopped.") = 1
    /\ calls = <<>>

\* C10: for every input string, the directory component and the filename
\* slug contain only characters of [A-Za-z0-9_ -], and the directory
\* component has neither leading nor trailing whitespace.
C10_SanitisationClosure ==
    san_out.some =>
        /\ \A i \in DOMAIN san_out.v.dir : san_out.v.dir[i] \in SafeAlphabet
        /\ \A i \in DOMAIN san_out.v.fn : san_out.v.fn[i] \in SafeAlphabet
        /\ san_out.v.dir # <<>> =>
              /\ ~ReSpace(san_out.v.dir[1])
              /\ ~ReSpace(san_out.v.dir[Len(san_out.v.dir)])

\* the stage an event belongs to, by the text its message starts with:
\* 1 classify, 2 dir, 3 templates, 4 tailor, 5 compose, 6 write; 0 for the
\* events of no stage and of call_ai, which every generating stage shares
HeadStage(head) ==
    CASE head \in {"Identified Role: ",
                   "AI returned an empty response for company/role extraction.",
                   "Failed to parse company/role from AI response. Error:"} -> 1
      [] head \in {"Created application folder: ",
                   "Failed to create directory. Error: "} -> 2
      [] head \in {"Template file not found: ", "Error reading file "} -> 3
      [] head \in {"Successfully tailored CV with AI.",
                   "AI failed to generate CV content. Process stopped."} -> 4
      [] head \in {"Successfully generated Anschreiben with AI.",
                   "AI failed to generate Anschreiben content. Process stopped."} -> 5
      [] head \in {"Saved ", "Error saving files: "} -> 6
      [] OTHER -> 0

StageOfCall(stage) ==
    CASE stage = "classify" -> 1 [] stage = "tailor" -> 4 [] stage = "compose" -> 5

\* the stages of the events from event i on do not decrease, where last is
\* the stage of the latest event of a stage before i and n the number of
\* "Calling" events before i: a "Calling" event is of the stage whose request
\* it announces, the n-th such event announcing the n-th request
RECURSIVE StagesAscend(_, _, _)
StagesAscend(i, last, n) ==
    IF i > Len(events)
    THEN TRUE
    ELSE LET head == events[i].message[1]
             m == IF head = "Calling " THEN n + 1 ELSE n
             stage == IF head # "Calling " THEN HeadStage(head)
                      ELSE IF m \in DOMAIN calls THEN StageOfCall(calls[m].stage) ELSE 7
         IN  /\ stage = 0 \/ stage >= last
             /\ StagesAscend(i + 1, IF stage = 0 THEN last ELSE stage, m)

NoTemplateRead == ext.templates = NoExt.templates

\* C11: the events of the stages come in the order classify, dir, templates,
\* tailor, compose, write, and a stage acts (request, mkdir, template read,
\* write) only when the stage before it has returned: the directory is made
\* after the classification, the templates are read after the directory was
\* made, the Tailor request follows the reads, the Compose request the
\* tailored CV, and the writes the letter.
C11_StagesInOrder ==
    /\ StagesAscend(1, 0, 0)
    /\ \A i, j \in DOMAIN calls :
          i < j => StageOfCall(calls[i].stage) < StageOfCall(calls[j].stage)
    /\ ext.mkdir # "-" => (ext.classify # "-" /\ CountHead(events, "Identified Role: ") = 1)
    /\ ~NoTemplateRead => (ext.mkdir \in MkdirOk /\ job_folder.some)
    /\ ext.tailor # "-" => (/\ \A i \in DOMAIN ext.templates : ext.templates[i] # "-"
                            /\ \A i \in DOMAIN templates : templates[i].some)
    /\ ext.compose # "-" => (ext.tailor # "-" /\ tailored_cv.some)
    /\ ext.write # "-" => (ext.compose # "-" /\ anschreiben.some)
    /\ written # <<>> => ext.write # "-"

\* a call that went through all six stages
C11_Witness ==
    /\ pc = "done"
    /\ written = AllThree
    /\ Len(calls) = 3
    /\ {HeadStage(events[i].message[1]) : i \in DOMAIN events} = {0, 1, 2, 4, 5, 6}

Tiers == {"fast", "powerful"}

\* C12: MODELS names a model for each of claude, gemini and each of fast,
\* powerful; every request of a call is the Classify request with the fast
\* model of the call's provider or a Tailor or Compose request with its
\* powerful model, and a call issues no request of another kind.
C12_TierPerStage ==
    /\ DOMAIN MODELS = Providers
    /\ \A p \in Providers : DOMAIN MODELS[p] = Tiers
    /\ \A i \in DOMAIN calls :
          /\ calls[i].provider = provider
          /\ calls[i].stage \in {"classify", "tailor", "compose"}
          /\ calls[i].stage = "classify" => calls[i].model = MODELS[provider]["fast"]
          /\ calls[i].stage \in {"tailor", "compose"} =>
                calls[i].model = MODELS[provider]["powerful"]
    /\ Len(calls) <= 3

\* a gemini call, whose two tiers name different models, issued all three
\* requests
C12_Witness ==
    /\ provider = "gemini"
    /\ MODELS["gemini"]["fast"] # MODELS["gemini"]["powerful"]
    /\ Len(calls) = 3
    /\ calls[1].model = "gemini-1.5-flash-latest"
    /\ calls[3].model = "gemini-1.5-pro-latest"

\* the file records a complete bundle of the running call consists of
BundleOf(d) ==
    LET arts == Artifacts(role.s, tailored_cv.v, anschreiben.v)
    IN  {[dir |-> d, name |-> arts[i].name, content |-> arts[i].content] :
            i \in DOMAIN arts}

\* C13: the directory a call has made is determined by the date, the company
\* and the role, so a later call of the same day with the same
\* classification gets the same path; directory creation does not fail
\* because the directory is there already; and a call that wrote its three
\* artifacts leaves exactly these three files in the directory, whatever an
\* earlier call left there.
C13_RerunOverwritesInPlace ==
    /\ ext.mkdir # "fileexists"
    /\ ext.mkdir \in MkdirOk => (job_folder.some /\ job_folder.v \in fs_dirs)
    /\ pc = "templates" =>
          job_folder = Some(<<Today, " - ">> \o SafeDirPart(company.s) \o <<" - ">>
                            \o SafeDirPart(role.s))
    /\ (pc = "done" /\ written = AllThree) =>
          /\ FileRecords(job_folder.v) = BundleOf(job_folder.v)
          /\ Cardinality(FileRecords(job_folder.v)) = 3

\* the second call found the directory and the three files of the first
\* call, and wrote its three artifacts there: nothing else exists
C13_Witness ==
    /\ runs = 2
    /\ pc = "done"
    /\ ext.mkdir = "existed"
    /\ written = AllThree
    /\ ext.found = 3
    /\ fs_dirs = {job_folder.v}
    /\ Cardinality(fs_files) = 3

IsPrefix(s, t) == Len(s) <= Len(t) /\ SubSeq(t, 1, Len(s)) = s

\* C14 as stated: after a call has returned, the artifacts it wrote are none
\* or all three of HTML, PDF and TXT, never some of them only.
C14_NoPartialBundle ==
    pc = "done" => written \in {<<>>, AllThree}

\* C14 amended: the artifacts a call wrote are the ones save_files wrote
\* before its first failing write, in the order HTML, PDF, TXT: all three
\* when no write failed, none when the call ended before save_files or the
\* HTML write failed, HTML alone when the PDF write failed, HTML and PDF when
\* the TXT write failed; the files stay on disk.
C14_PartialBundleOnlyAfterWriteFailure ==
    /\ IsPrefix(written, AllThree)
    /\ pc = "done" =>
          /\ ext.write \in {"-", "html"} => written = <<>>
          /\ ext.write = "pdf" => written = <<"html">>
          /\ ext.write = "txt" => written = <<"html", "pdf">>
          /\ ext.write = "none" => written = AllThree
          /\ ext.write # "-" =>
                \A i \in DOMAIN written :
                    \E f \in FileRecords(job_folder.v) :
                        f = [dir |-> job_folder.v,
                             name |-> Artifacts(role.s, tailored_cv.v, anschreiben.v)[i].name,
                             content |-> Artifacts(role.s, tailored_cv.v, anschreiben.v)[i].content]

\* the PDF write of the first call of a process failed: the HTML file is the
\* only file there is
C14_Witness ==
    /\ pc = "done"
    /\ ext.write = "pdf"
    /\ written = <<"html">>
    /\ Cardinality(fs_files) = 1

\* the events of severity info, working or success
ProgressCount(evs) ==
    Cardinality({i \in DOMAIN evs : evs[i].severity \in {"info", "working", "success"}})

\* the transitions of the driver a call has taken when it stands before the
\* given step without having ended: INIT to READY before the classification,
\* READY to DIR before the mkdir, and so on
TransitionsTaken(step) ==
    CASE step = "classify" -> 1
      [] step = "mkdir" -> 2
      [] step = "templates" -> 3
      [] step = "tailor" -> 4
      [] step = "compose" -> 5
      [] step = "save" -> 6
      [] OTHER -> 0

\* C15: each transition of the driver reports exactly one event of severity
\* info, working or success, in the first call of a process and in later
\* ones: a call that has taken n transitions has reported n such events, and
\* a call that wrote all three artifacts has reported seven.
C15_OneEventPerTransition ==
    /\ pc \in {"classify", "mkdir", "templates", "tailor", "compose", "save"} =>
          ProgressCount(events) = TransitionsTaken(pc)
    /\ (pc = "done" /\ written = AllThree) => ProgressCount(events) = 7

\* the values a credential variable can hold that are a secret
CredentialLiterals == CredValues \ {Unset, ""}

\* C16: no event of a call holds the value of a credential anywhere in its
\* message: not the value the environment holds for the call, not the one a
\* client was built from in this or an earlier call, also when a request
\* raised and the text of the exception is reported.
C16_NoCredentialInEvents ==
    \A i \in DOMAIN events :
        \A k \in CredentialLiterals \cup ({env, claude_client, genai_key} \ {Unset, "", NoClient}) :
            ~Contains(events[i].message, k)

\* the answers of the classifier that are prose without braces and fence
\* markers around one JSON object with both keys and string values, and the
\* two strings each of them holds
StringObjectAnswers ==
    [ json_acme |-> [company |-> <<"A","C","M","E"," ","G","m","b","H">>,
                     role |-> <<"D","a","t","a"," ","E","n","g","i","n","e","e","r">>],
      json_umlaut |-> [company |-> <<"M","ü","/","C","o",".">>,
                       role |-> <<"D","e","v","\t","O","p","s","!"," ">>] ]

\* C17: when the classifier's answer is such a text, the classification is
\* the two strings of the object and no error event is reported for it; for
\* "ACME GmbH" and "Data Engineer" the directory name ends in
\* "ACME GmbH - Data Engineer" and the CV files are named with the slug
\* "Data_Engineer".
C17_FencedJsonIsExtracted ==
    ext.classify \in DOMAIN StringObjectAnswers =>
        /\ company = [type |-> "str", s |-> StringObjectAnswers[ext.classify].company]
        /\ role = [type |-> "str", s |-> StringObjectAnswers[ext.classify].role]
        /\ ext.mkdir = "-" => ErrorCount(events) = 0
        /\ CountHead(events, "AI returned an empty response for company/role extraction.") = 0
        /\ CountHead(events, "Failed to parse company/role from AI response. Error:") = 0
        /\ (ext.classify = "json_acme" /\ job_folder.some) =>
              IsSuffix(<<"A","C","M","E"," ","G","m","b","H"," - ",
                         "D","a","t","a"," ","E","n","g","i","n","e","e","r">>, job_folder.v)
        /\ (ext.classify = "json_acme" /\ written = AllThree) =>
              {f.name : f \in FileRecords(job_folder.v)} =
                  { <<"CV_", "ZohaibMalik", "_", "D","a","t","a","_",
                      "E","n","g","i","n","e","e","r", ".html">>,
                    <<"CV_", "ZohaibMalik", "_", "D","a","t","a","_",
                      "E","n","g","i","n","e","e","r", ".pdf">>,
                    <<"Anschreiben.txt">> }

\* the fenced answer with prose around it was classified and the bundle for
\* ACME GmbH written
C17_Witness ==
    /\ ext.classify = "json_acme"
    /\ pc = "done"
    /\ written = AllThree
    /\ job_folder.some

\* C18: across the calls of a process, a step changes the client state of a
\* provider only in initialize_ai_provider of a call for that provider whose
\* credential is present, while that provider is not initialised yet; the
\* client is then built from the credential of that call. An initialised
\* client is neither rebound nor reset by any later step, and a step that
\* initialises one provider leaves the state of the other as it was.
C18_LazyIdempotentInit ==
    [][ /\ claude_client # NoClient => claude_client' = claude_client
        /\ gemini_configured => (gemini_configured' /\ genai_key' = genai_key)
        /\ claude_client' # claude_client =>
              /\ pc = "init" /\ provider = "claude"
              /\ env \notin {Unset, ""}
              /\ claude_client' = env
              /\ gemini_configured' = gemini_configured /\ genai_key' = genai_key
        /\ (gemini_configured' # gemini_configured \/ genai_key' # genai_key) =>
              /\ pc = "init" /\ provider = "gemini"
              /\ env \notin {Unset, ""}
              /\ gemini_configured' /\ genai_key' = env
              /\ claude_client' = claude_client
        /\ (pc = "init" /\ provider = "claude" /\ claude_client = NoClient
                /\ env \notin {Unset, ""}) => claude_client' = env
        /\ (pc = "init" /\ provider = "gemini" /\ ~gemini_configured
                /\ env \notin {Unset, ""}) => (gemini_configured' /\ genai_key' = env)
      ]_vars

\* the second call of a process selects claude, builds no client and issues
\* its request with the client the first call built
C18_Witness ==
    /\ runs = 2
    /\ provider = "claude"
    /\ claude_client # NoClient
    /\ calls # <<>>
    /\ calls[1].api_key = claude_client
    /\ CountHead(events, "Claude client initialized.") = 0

\* C19: when a call has returned None, the last event it reported is of
\* severity error (the log of a call ends with its return, so no event
\* follows it).
C19_AbortEndsWithError ==
    (pc = "done" /\ result = RNull) =>
        /\ events # <<>>
        /\ events[Len(events)].severity = "error"

IsStagePrefix(c) ==
    \A i \in DOMAIN c : c[i].stage = <<"classify", "tailor", "compose">>[i]

\* C20: a call issues at most one request for each of Classify, Tailor and
\* Compose, in this order and none for a stage whose predecessor's answer
\* failed or was empty; a request that raised or whose answer was empty is
\* not sent again; a call that wrote its bundle has issued exactly the three
\* requests Classify, Tailor, Compose.
C20_NoRetries ==
    /\ Len(calls) <= 3
    /\ IsStagePrefix(calls)
    /\ \A s \in {"classify", "tailor", "compose"} :
          Cardinality({i \in DOMAIN calls : calls[i].stage = s}) <= 1
    /\ ext.tailor \in {"raise", "empty", "blank"} => (pc = "done" /\ Len(calls) = 2)
    /\ ext.compose \in {"raise", "empty", "blank"} => (pc = "done" /\ Len(calls) = 3)
    /\ ext.classify \in {"raise", "empty", "blank"} =>
          Cardinality({i \in DOMAIN calls : calls[i].stage = "classify"}) = 1
    /\ (pc = "done" /\ result.kind = "path") =>
          [i \in DOMAIN calls |-> calls[i].stage] = <<"classify", "tailor", "compose">>

\* a call whose Classify request raised went on and completed with three
\* requests in all
C20_Witness ==
    /\ pc = "done"
    /\ result.kind = "path"
    /\ ext.classify = "raise"
    /\ Len(calls) = 3

\* the events of save_files in the log of the call, in order
WriteStageEvents ==
    SelectSeq(events, LAMBDA e : e.message[1] \in {"Saved ", "Error saving files: "})

ArtifactLabels == <<"tailored HTML CV", "tailored PDF CV", "Anschreiben">>

\* C21: save_files writes HTML, then PDF, then TXT; the success event of an
\* artifact is reported when, and only when, the artifact was written, in
\* the same order; the write that fails is followed by one error event and
\* by no further write and no further success event; when no write fails
\* the write stage reports no error event.
C21_WriteOrderAndEvents ==
    ext.write # "-" =>
        LET n == Len(written)
            w == WriteStageEvents
        IN  /\ IsPrefix(written, <<"html", "pdf", "txt">>)
            /\ ext.write = "html" => n = 0
            /\ ext.write = "pdf" => n = 1
            /\ ext.write = "txt" => n = 2
            /\ ext.write = "none" => n = 3
            /\ Len(w) = (IF ext.write = "none" THEN n ELSE n + 1)
            /\ \A i \in 1..n :
                  /\ i \in DOMAIN w
                  /\ w[i].severity = "success"
                  /\ w[i].message[2] = ArtifactLabels[i]
            /\ ext.write # "none" =>
                  /\ n + 1 \in DOMAIN w
                  /\ w[n + 1].severity = "error"
                  /\ w[n + 1].message[1] = "Error saving files: "
                  /\ events[Len(events)] = w[n + 1]

\* the TXT write failed after the HTML and the PDF write
C21_Witness ==
    /\ pc = "done"
    /\ ext.write = "txt"
    /\ written = <<"html", "pdf">>
    /\ Len(WriteStageEvents) = 3

\* the positions of a call that has not returned, in the order the driver
\* passes them
StepRank ==
    [init |-> 1, start |-> 2, classify |-> 3, mkdir |-> 4, templates |-> 5,
     tailor |-> 6, compose |-> 7, save |-> 8, done |-> 9]

Running == pc \in DOMAIN StepRank /\ pc # "done"

\* C22: a call for claude or gemini ends by returning the folder or None,
\* whatever the stages did: no exception leaves the call. A call that has
\* not returned can always take its next step once the external call of the
\* step has returned, and every step takes it to a later position, so after
\* at most eight steps it has returned.
C22_AlwaysReturns ==
    /\ [](provider \in Providers =>
            /\ pc = "done" => result.kind \in {"path", "null"}
            /\ result.kind # "raised"
            /\ Running => ENABLED Next)
    /\ [][(Running /\ provider \in Providers) => StepRank[pc'] > StepRank[pc]]_vars

\* a call whose classification was a JSON object with null values ended with
\* None after the TypeError of re.sub in create_job_directory
C22_Witness ==
    /\ pc = "done"
    /\ provider \in Providers
    /\ ext.mkdir = "typeerror"
    /\ result = RNull

\* the api_key the client of provider p holds
ClientKey(p) == IF p = "claude" THEN claude_client ELSE genai_key

\* C23: a call for provider p that gets past initialize_ai_provider, and so
\* may issue requests, has a client built from the value the credential
\* variable of p holds in the environment at that moment, also when the
\* value was changed after an earlier call of the process; every request of
\* the call is made with that client.
C23_ClientFollowsEnvironment ==
    /\ [](\A i \in DOMAIN calls : calls[i].api_key = ClientKey(provider))
    /\ [][(pc = "init" /\ provider \in Providers /\ pc' = "start") =>
              (IF provider = "claude" THEN claude_client' ELSE genai_key') = env]_vars

\* the client of provider p is initialised
Initialised(p) ==
    IF p = "claude" THEN claude_client # NoClient ELSE gemini_configured /\ genai_key # NoClient

\* C24: when a call is at a position where call_ai is about to issue a
\* request, or has issued one, the client of its provider is initialised:
\* claude_client is not None for claude, gemini_configured is true for
\* gemini. No request of the log was made without a client, whatever calls
\* the process saw before.
C24_NoRequestWithoutClient ==
    /\ (pc \in {"classify", "tailor", "compose"} /\ provider \in Providers) =>
          Initialised(provider)
    /\ calls # <<>> => (provider \in Providers /\ Initialised(provider))
    /\ \A i \in DOMAIN calls :
          /\ calls[i].provider = provider
          /\ calls[i].api_key \notin {NoClient, Unset, ""}
    /\ CountHead(events, "Calling ") = Len(calls)

\* the second call of a process issues a request for gemini after a call
\* that built the client of claude
C24_Witness ==
    /\ runs = 2
    /\ provider = "gemini"
    /\ claude_client # NoClient
    /\ calls # <<>>
    /\ gemini_configured

\* the answers of the classifier that hold a JSON object json.loads parses
ParseableAnswers == {"json", "json_acme", "json_umlaut"}

\* C25: when the classifier's answer holds a parseable JSON object, whatever
\* the JSON types of its two values and whether the keys are there, the
\* classification is a pair of strings, the call goes on to the directory
\* stage, and create_job_directory does not fail on what the classification
\* is.
C25_ClassificationIsStrings ==
    ext.classify \in ParseableAnswers =>
        /\ company.type = "str"
        /\ role.type = "str"
        /\ ext.mkdir # "typeerror"
        /\ pc # "classify"

\* the steps of a call before its classify stage, and its stages between
\* the directory and the write
BeforeClassify == {"init", "start"}

BetweenDirAndSave == {"templates", "tailor", "compose"}

\* C26: no step of a call before the classify stage changes the file system
\* or issues a request, so that a call that ends there (no credential, blank
\* JD) has created no directory, written no file and called no model; the
\* directory step adds the directory and nothing else; and no step of the
\* template, tailor or compose stage changes a directory or a file, so that
\* a call that ends there has the created directory as its one effect on
\* the file system.
C26_AbortLeavesNoArtifact ==
    /\ [](/\ pc \in BeforeClassify => calls = <<>> /\ job_folder = None
          /\ (pc = "done" /\ ext.classify = "-") =>
                 /\ result # RPending
                 /\ calls = <<>> /\ written = <<>> /\ job_folder = None
          /\ (pc \in BetweenDirAndSave \/ (pc = "done" /\ ext.write = "-")) =>
                 written = <<>>
          /\ pc \in BetweenDirAndSave => (job_folder # None /\ job_folder.v \in fs_dirs))
    /\ [][/\ pc \in BeforeClassify \cup {"classify"} \cup BetweenDirAndSave =>
                 (fs_dirs' = fs_dirs /\ fs_files' = fs_files)
          /\ pc \in BeforeClassify => calls' = <<>>
          /\ pc = "mkdir" =>
                 /\ fs_files' = fs_files
                 /\ fs_dirs \subseteq fs_dirs'
                 /\ Cardinality(fs_dirs') <= Cardinality(fs_dirs) + 1
                 /\ fs_dirs' # fs_dirs => (job_folder' # None /\ fs_dirs' = fs_dirs \cup {job_folder'.v})]_vars

\* a second call of the process ends at the tailor stage in the directory
\* of a first call that wrote its three files; the files are still there
C26_Witness ==
    /\ pc = "done" /\ result = RNull
    /\ ext.tailor \in {"raise", "empty", "blank"}
    /\ ext.found = 3
    /\ written = <<>>
    /\ Cardinality(FileRecords(job_folder.v)) = 3

\* C27: a call made twice from one process state, with the same provider,
\* JD and credential and the same external outcomes, once with a callback
\* that returns one value and once with a callback that returns another:
\* when the second call has returned it was given what the first was given
\* and has returned the same result, reported the same events, issued the
\* same requests, written the same files and left the same file system and
\* clients.
C27_CallbackReturnNotRead ==
    (pass = 2 /\ pc = "done") =>
        /\ cb_ret # first.ret
        /\ Given = first.given
        /\ Did = first.did

\* both calls wrote the bundle, over the files of an earlier call, the
\* first with a callback returning None and the second with one returning
\* False
C27_Witness ==
    /\ pass = 2 /\ pc = "done"
    /\ first.ret = "None" /\ cb_ret = "False"
    /\ result.kind = "path"
    /\ written = <<"html", "pdf", "txt">>
    /\ ext.found = 3
    /\ Len(events) >= 8

====
